---- MODULE Spec2Model ----
(***************************************************************************)
(* Model of the document processing pipeline of Project-Relexwise:         *)
(*   backend/app/services/processing_queue.py   (ProcessingQueue)          *)
(*   backend/app/services/vector_processing_friend.py                      *)
(*   backend/app/services/vector_processing.py  (VectorProcessingService)  *)
(*   backend/app/services/vector_search.py, vector_search_old.py           *)
(*   backend/app/services/metadata_extraction.py (normalization)           *)
(*   backend/app/routers/files.py               (upload, status, delete)   *)
(*   backend/app/websocket.py, routers/websocket.py (ConnectionManager)    *)
(*   backend/task_queue.py                      (TaskQueue)                *)
(* Every await of a worker coroutine is a step boundary: it is where the   *)
(* event loop may run another coroutine and where Task.cancel() delivers   *)
(* CancelledError.                                                         *)
(***************************************************************************)
EXTENDS Integers, Sequences, FiniteSets, TLC

\* ------------------------------------------------------------------ bounds
MaxDocs == 2
MaxJobs == 2
MaxStarts == 2
max_concurrent_workers == 2

\* ------------------------------------------------------- program constants
max_retries == 3
settings_chunk_size == 1024
settings_chunk_overlap == 200
similarity_top_k == 95
top_k == 5

Docs == 1..MaxDocs
Tasks == 1..max_concurrent_workers
NoDoc == 0

\* Behaviour of the external collaborators during a run of the service:
\*   "ok"      every collaborator call succeeds
\*   "extract" the text-extraction call raises, or never returns
\*   "embed"   the embedding / vector-store call raises on every call
\*   "meta"    the structured-extraction call raises on every call
\*   "db"      statements of the relational engine may raise or never return
Faults == {"ok", "extract", "embed", "meta", "db"}

VARIABLES
    queue,        \* ProcessingQueue.queue: FIFO of file ids
    enq,          \* per file id: number of put() calls
    taken,        \* per file id: number of get() results handed to a worker
    acks,         \* per file id: number of task_done() calls
    is_running,   \* ProcessingQueue.is_running
    workers,      \* ProcessingQueue.workers: the list of tasks
    started,      \* number of effective start() calls so far
    gathering,    \* tasks a suspended stop() is waiting for
    stopping,     \* a stop() call is suspended in asyncio.gather
    pc,           \* per task: position of the _worker coroutine
    cur,          \* per task: file id of the job it dequeued
    attempt,      \* per task: loop variable of the retry loop
    cancelled,    \* per task: cancel() requested, CancelledError not yet delivered
    txn,          \* per task: uncommitted writes of its open database session
    fault,        \* behaviour of the collaborators during this run
    vec,          \* committed File.vector_processing_status
    meta,         \* committed File.metadata_processing_status
    attempts,     \* committed File.processing_attempts
    errs,         \* committed number of ProcessingError rows of the file
    index,        \* nodes held by the Chroma collection "contract_docs"
    index_handle, \* vector_service.index is not None
    next_id,      \* supply of the ids the indexing library gives to new nodes
    ran,          \* per file id: the completed vector-stage runs, in order
    events,       \* messages handed to ConnectionManager.broadcast, in order
    collection,   \* chunks held by the Chroma collection "contracts"
    deleted,      \* file ids whose File row delete_file has deleted
    last,         \* the last call of a vector-store operation and its outcome
    text,         \* chunk_text: the text argument, as its sequence of tokens
    chunk_size,   \* chunk_text: the chunk_size argument
    chunk_overlap,\* chunk_text: the chunk_overlap argument
    returned,     \* chunk_text: the returned list, once the call was made
    proposed,     \* _validate_and_clean_metadata: the dict parsed from the response
    current_date, \* datetime.now(), in half days since the last midnight
    cleaned,      \* _validate_and_clean_metadata: its outcome, once called
    socket,       \* per WebSocket: state of the connection and its endpoint
    active_connections, \* ConnectionManager.active_connections
    user_connections,   \* ConnectionManager.user_connections
    broadcasting, \* the broadcast call under way, or the last one made
    sending,      \* the send_to_user call under way
    tasks,        \* TaskQueue.queue: FIFO of task ids
    results,      \* TaskQueue.results
    running,      \* TaskQueue.running
    worker_task,  \* TaskQueue.worker_task and the position of its coroutine
    stopping_worker \* a stop_worker() call is suspended in `await self.worker_task`

qvars == <<queue, enq, taken, acks>>
pvars == <<is_running, workers, started, gathering, stopping>>
wvars == <<pc, cur, attempt, cancelled, txn>>
dvars == <<vec, meta, attempts, errs>>
svars == <<collection, deleted, last>>
cvars == <<text, chunk_size, chunk_overlap, returned>>
mvars == <<proposed, current_date, cleaned>>
nvars == <<socket, active_connections, user_connections, broadcasting, sending>>
tvars == <<tasks, results, running, worker_task, stopping_worker>>
ivars == <<index, index_handle, next_id, ran, events, svars, cvars, mvars, nvars, tvars>>
vars == <<queue, enq, taken, acks, is_running, workers, started, gathering,
          stopping, pc, cur, attempt, cancelled, txn, fault, vec, meta,
          attempts, errs, index, index_handle, next_id, ran, events,
          collection, deleted, last, text, chunk_size, chunk_overlap, returned,
          proposed, current_date, cleaned, socket, active_connections,
          user_connections, broadcasting, sending, tasks, results, running,
          worker_task, stopping_worker>>

NoTxn == [att |-> 0, vec |-> "-"]

NoCall == [op |-> "none"]

InitQueue ==
    /\ queue = <<>>
    /\ enq = [d \in Docs |-> 0]
    /\ taken = [d \in Docs |-> 0]
    /\ acks = [d \in Docs |-> 0]
    /\ is_running = FALSE
    /\ workers = <<>>
    /\ started = 0
    /\ gathering = {}
    /\ stopping = FALSE
    /\ pc = [t \in Tasks |-> "none"]
    /\ cur = [t \in Tasks |-> NoDoc]
    /\ attempt = [t \in Tasks |-> 0]
    /\ cancelled = [t \in Tasks |-> FALSE]
    /\ txn = [t \in Tasks |-> NoTxn]
    /\ fault \in Faults
    /\ vec = [d \in Docs |-> "pending"]
    /\ meta = [d \in Docs |-> "pending"]
    /\ attempts = [d \in Docs |-> 0]
    /\ errs = [d \in Docs |-> 0]
    /\ events = <<>>

InitIndex ==
    /\ index = {}
    /\ index_handle = FALSE
    /\ next_id = 1
    /\ ran = [d \in Docs |-> <<>>]

InitStore ==
    /\ collection = {}
    /\ deleted = {}
    /\ last = NoCall

NotCalled == [called |-> FALSE, list |-> <<>>]

\* no chunk_text call is under way: the configured arguments, no text
InitConfig ==
    /\ text = <<>>
    /\ chunk_size = settings_chunk_size
    /\ chunk_overlap = settings_chunk_overlap
    /\ returned = NotCalled

\* a value of the parsed dict: a string (s its characters, or for a date
\* string "date" with the format it is written in and its day, counted from
\* today), a number (s what str() gives) or None
Str(s) == [t |-> "str", s |-> s, fmt |-> "", day |-> 0]
Num(s) == [t |-> "num", s |-> s, fmt |-> "", day |-> 0]
DateStr(fmt, day) == [t |-> "str", s |-> "date", fmt |-> fmt, day |-> day]
None == [t |-> "null", s |-> "None", fmt |-> "", day |-> 0]

\* _get_default_metadata, the fields the status is derived from
DefaultMetadata ==
    [start_date |-> Str("NA"), end_date |-> Str("NA"), vendor_name |-> Str("NA"),
     contract_status |-> Str("NA"), contract_tag |-> Str("No expiry date")]

NotCleaned == [called |-> FALSE, raised |-> FALSE, metadata |-> DefaultMetadata]

\* no _validate_and_clean_metadata call is under way
InitMetadata ==
    /\ proposed = DefaultMetadata
    /\ current_date = 1
    /\ cleaned = NotCleaned

\* ------------------------------------------------ sockets and task queue
MaxSockets == 2
MaxTasks == 3

Sockets == 1..MaxSockets
TaskIds == 1..MaxTasks
NoTask == 0

\* no broadcast call was made yet
NoBroadcast ==
    [pc |-> "ready", idx |-> 0, disconnected |-> <<>>, at_publish |-> {},
     during |-> {}, stayed |-> {}, tried |-> [s \in Sockets |-> 0],
     got |-> {}]

NotSending == [pc |-> "idle", user_id |-> "default", idx |-> 0,
               disconnected |-> <<>>, detached |-> FALSE]

\* ConnectionManager.__init__, no WebSocket accepted yet
InitSockets ==
    /\ socket = [s \in Sockets |-> "new"]
    /\ active_connections = <<>>
    /\ user_connections = <<>>
    /\ broadcasting = NoBroadcast
    /\ sending = NotSending

NoWorker == [pc |-> "none", task |-> NoTask, cancelled |-> FALSE]

\* TaskQueue.__init__
InitTasks ==
    /\ tasks = <<>>
    /\ results = <<>>
    /\ running = FALSE
    /\ worker_task = NoWorker
    /\ stopping_worker = FALSE

InitServices == InitSockets /\ InitTasks

Init == InitQueue /\ InitIndex /\ InitStore /\ InitConfig /\ InitMetadata /\ InitServices

\* ------------------------------------------------------------ submission
\* upload_files creates the File row (both stages pending, attempts 0) and
\* add_file_for_processing puts the job.  The queue does not deduplicate: a
\* further put of an id that was already submitted is accepted.
RECURSIVE SumUpTo(_, _)
SumUpTo(f, n) == IF n = 0 THEN 0 ELSE f[n] + SumUpTo(f, n - 1)

Submitted == SumUpTo(enq, MaxDocs)

QueuePutFirst(q, d) == <<d>> \o q

\* asyncio.Queue.put on the unbounded queue: appended to the deque, no wait
QueuePut(q, d) == Append(q, d)

add_file_for_processing(d) ==
    /\ Submitted < MaxJobs
    /\ queue' = QueuePut(queue, d)
    /\ enq' = [enq EXCEPT ![d] = @ + 1]
    /\ UNCHANGED <<taken, acks, pvars, wvars, fault, dvars, ivars>>

\* -------------------------------------------------------------- lifecycle
\* start() and stop() are called by the owner of the queue one after the
\* other: a start() is not issued while a stop() is still suspended in gather.
\* The tasks of a stopped pool are dropped with workers.clear(), so the tasks
\* of the next start() take their places.
StartNeverReturnsEarly(flag) == FALSE

\* `if self.is_running: return`
StartReturnsEarly(flag) == flag

\* the tasks the loop of start() creates and appends, in order
NewWorkers == [i \in 1..max_concurrent_workers |-> i]

\* the tasks in the list
Members(ws) == {ws[i] : i \in 1..Len(ws)}

start ==
    /\ ~StartReturnsEarly(is_running)
    /\ ~stopping
    /\ started < MaxStarts
    /\ is_running' = TRUE
    /\ workers' = workers \o NewWorkers
    /\ pc' = [t \in Tasks |-> "created"]
    /\ started' = started + 1
    /\ UNCHANGED <<qvars, gathering, stopping, cur, attempt, cancelled, txn,
                   fault, dvars, ivars>>

CancelNone(ws) == cancelled

\* worker.cancel() on a task that is not done
CancelAll(ws) == [t \in Tasks |-> cancelled[t] \/ (t \in ws /\ pc[t] # "done")]

\* stop() up to its await: clear the flag, cancel every worker
stop ==
    /\ is_running
    /\ is_running' = FALSE
    /\ cancelled' = CancelAll(Members(workers))
    /\ gathering' = Members(workers)
    /\ stopping' = TRUE
    /\ UNCHANGED <<qvars, workers, started, pc, cur, attempt, txn, fault, dvars, ivars>>

\* stop() resumes once gather has every worker's result
stop_gathered ==
    /\ stopping
    /\ \A t \in gathering : pc[t] = "done"
    /\ workers' = <<>>
    /\ gathering' = {}
    /\ stopping' = FALSE
    /\ pc' = [t \in Tasks |-> "none"]
    /\ UNCHANGED <<qvars, is_running, started, cur, attempt, cancelled, txn,
                   fault, dvars, ivars>>

\* ----------------------------------------------------------------- worker
\* `while self.is_running`, evaluated without an await in between after the
\* previous iteration
LoopTop == IF is_running THEN "get" ELSE "done"

RunsThoughCancelled(t, p) == pc[t] = p

\* a task with a pending cancel() takes no step of its coroutine: the
\* CancelledError is thrown into it at the await it is suspended in
Runs(t, p) == pc[t] = p /\ ~cancelled[t]

worker_begin(t) ==
    /\ Runs(t, "created")
    /\ pc' = [pc EXCEPT ![t] = LoopTop]
    /\ UNCHANGED <<qvars, pvars, cur, attempt, cancelled, txn, fault, dvars, ivars>>

QueuePeek(q) == q

QueueGet(q) == Tail(q)

worker_get(t) ==
    /\ Runs(t, "get")
    /\ queue # <<>>
    /\ cur' = [cur EXCEPT ![t] = Head(queue)]
    /\ queue' = QueueGet(queue)
    /\ taken' = [taken EXCEPT ![Head(queue)] = @ + 1]
    /\ attempt' = [attempt EXCEPT ![t] = 1]
    /\ pc' = [pc EXCEPT ![t] = "process"]
    /\ UNCHANGED <<enq, acks, pvars, cancelled, txn, fault, dvars, ivars>>

worker_timeout(t) ==
    /\ Runs(t, "get")
    /\ queue = <<>>
    /\ pc' = [pc EXCEPT ![t] = LoopTop]
    /\ UNCHANGED <<qvars, pvars, cur, attempt, cancelled, txn, fault, dvars, ivars>>

task_done_skipped(a, d) == a

task_done(a, d) == [a EXCEPT ![d] = @ + 1]

\* the job's retry loop is left: task_done(), next iteration
JobDone(t) ==
    /\ acks' = task_done(acks, cur[t])
    /\ pc' = [pc EXCEPT ![t] = LoopTop]
    /\ cur' = [cur EXCEPT ![t] = NoDoc]
    /\ attempt' = [attempt EXCEPT ![t] = 0]

AttemptRaisedRetriesAgain(t) ==
    /\ pc' = [pc EXCEPT ![t] = "sleep"]
    /\ UNCHANGED <<acks, cur, attempt>>

\* _process_file raised into the retry loop
AttemptRaised(t) ==
    IF attempt[t] < max_retries
    THEN /\ pc' = [pc EXCEPT ![t] = "sleep"]
         /\ UNCHANGED <<acks, cur, attempt>>
    ELSE JobDone(t)

retry_sleep(t) ==
    /\ Runs(t, "sleep")
    /\ attempt' = [attempt EXCEPT ![t] = @ + 1]
    /\ pc' = [pc EXCEPT ![t] = "process"]
    /\ UNCHANGED <<qvars, pvars, cur, cancelled, txn, fault, dvars, ivars>>

\* CancelledError is delivered at the await the task is suspended in; it is
\* not an Exception, so it passes _process_file's handler (the session is
\* closed with its writes uncommitted) and the retry loop, and ends _worker.
worker_cancelled(t) ==
    /\ cancelled[t]
    /\ pc[t] \notin {"none", "done"}
    /\ pc' = [pc EXCEPT ![t] = "done"]
    /\ cancelled' = [cancelled EXCEPT ![t] = FALSE]
    /\ txn' = [txn EXCEPT ![t] = NoTxn]
    /\ cur' = [cur EXCEPT ![t] = NoDoc]
    /\ attempt' = [attempt EXCEPT ![t] = 0]
    /\ UNCHANGED <<qvars, pvars, fault, dvars, ivars>>

\* ----------------------------------------------------------- _process_file
_increment_processing_attempts(x) == [x EXCEPT !.att = @ + 1]

_update_processing_status(x, s) == [x EXCEPT !.vec = s]

\* session opened, attempts incremented, vector status "processing"; both
\* statements are uncommitted
process_begin(t) ==
    /\ Runs(t, "process")
    /\ txn' = [txn EXCEPT ![t] =
                 _update_processing_status(_increment_processing_attempts(NoTxn), "processing")]
    /\ pc' = [pc EXCEPT ![t] = "extract"]
    /\ UNCHANGED <<qvars, pvars, cur, attempt, cancelled, fault, dvars, ivars>>

process_begin_raises(t) ==
    /\ Runs(t, "process")
    /\ fault = "db"
    /\ pc' = [pc EXCEPT ![t] = "except"]
    /\ UNCHANGED <<qvars, pvars, cur, attempt, cancelled, txn, fault, dvars, ivars>>

\* An awaited collaborator call never returns: the first statement of the
\* session (awaited on the async engine) or the text extraction (awaited on
\* the executor future, pdf_processing.py _parse_with_retries).  The coroutine
\* stays suspended at that await; only cancellation ends it, so the loop
\* variable of the retry loop is not read again.
collaborator_stalls(t) ==
    /\ \/ Runs(t, "process") /\ fault = "db"
       \/ Runs(t, "extract") /\ fault = "extract"
    /\ pc' = [pc EXCEPT ![t] = "stalled"]
    /\ attempt' = [attempt EXCEPT ![t] = 0]
    /\ UNCHANGED <<qvars, pvars, cur, cancelled, txn, fault, dvars, ivars>>

extract_text_from_pdf(t) ==
    /\ Runs(t, "extract")
    /\ IF fault = "extract"
       THEN pc' = [pc EXCEPT ![t] = "except"]
       ELSE pc' = [pc EXCEPT ![t] = "vectors"]
    /\ UNCHANGED <<qvars, pvars, cur, attempt, cancelled, txn, fault, dvars, ivars>>

\* process_text_to_vectors is defined with (file_id, text) and called with
\* (file_id, text, user_id, tenant_id): the call raises TypeError before the
\* body runs, whatever the collaborators would do
ParametersDeclared == 2
ArgumentsPassed == 4

StoredBeforeRaising(ix, d) == ix \cup {[id |-> 0, file_id |-> d, pos |-> 1]}

\* the index after the call that raised TypeError: no statement of the body
\* ran, no node of the file was added
StoredByFailedCall(ix, d) == ix

process_text_to_vectors_call(t) ==
    /\ Runs(t, "vectors")
    /\ ArgumentsPassed # ParametersDeclared
    /\ index' = StoredByFailedCall(index, cur[t])
    /\ pc' = [pc EXCEPT ![t] = "except"]
    /\ UNCHANGED <<qvars, pvars, cur, attempt, cancelled, txn, fault, dvars,
                   index_handle, next_id, ran, events, svars, cvars, mvars,
                   nvars, tvars>>

_log_processing_error_dropped(n) == n

_log_processing_error(n) == n + 1

MarkAllFailed(status, d) == [x \in DOMAIN status |-> "failed"]

\* update(File).where(File.id == file_id).values(status_field = "failed"),
\* committed by the handler
MarkFailed(status, d) == [status EXCEPT ![d] = "failed"]

\* except Exception: rollback, error row, both stages failed, commit; the
\* exception is not re-raised, so the retry loop sees a normal return
process_except(t) ==
    /\ Runs(t, "except")
    /\ txn' = [txn EXCEPT ![t] = NoTxn]
    /\ errs' = [errs EXCEPT ![cur[t]] = _log_processing_error(@)]
    /\ vec' = MarkFailed(vec, cur[t])
    /\ meta' = MarkFailed(meta, cur[t])
    /\ JobDone(t)
    /\ UNCHANGED <<queue, enq, taken, pvars, cancelled, fault, attempts, ivars>>

\* a statement of the handler raises: nothing is committed and the exception
\* reaches the retry loop
process_except_raises(t) ==
    /\ Runs(t, "except")
    /\ fault = "db"
    /\ txn' = [txn EXCEPT ![t] = NoTxn]
    /\ AttemptRaised(t)
    /\ UNCHANGED <<queue, enq, taken, pvars, cancelled, fault, dvars, ivars>>

_worker(t) ==
    \/ worker_begin(t)
    \/ worker_get(t)
    \/ worker_timeout(t)
    \/ process_begin(t)
    \/ process_begin_raises(t)
    \/ collaborator_stalls(t)
    \/ extract_text_from_pdf(t)
    \/ process_text_to_vectors_call(t)
    \/ process_except(t)
    \/ process_except_raises(t)
    \/ retry_sleep(t)
    \/ worker_cancelled(t)

Next ==
    \/ \E d \in Docs : add_file_for_processing(d)
    \/ start
    \/ stop
    \/ stop_gathered
    \/ \E t \in Tasks : _worker(t)

Spec == Init /\ [][Next]_vars

\* the queue with collaborators that answer: no call raises or hangs except
\* the vector stage's own
_worker_served(t) ==
    \/ worker_begin(t)
    \/ worker_get(t)
    \/ worker_timeout(t)
    \/ process_begin(t)
    \/ extract_text_from_pdf(t)
    \/ process_text_to_vectors_call(t)
    \/ process_except(t)
    \/ worker_cancelled(t)

NextServed ==
    \/ \E d \in Docs : add_file_for_processing(d)
    \/ start
    \/ stop
    \/ stop_gathered
    \/ \E t \in Tasks : _worker_served(t)

InitServed == Init /\ fault = "ok"

\* the event loop runs every task that is ready: a worker that can take a
\* step takes it
SpecServed ==
    /\ InitServed
    /\ [][NextServed]_vars
    /\ \A t \in Tasks : WF_vars(_worker_served(t))

\* ------------------------------------------------------- the vector stage
\* FriendVectorProcessingService.process_text_to_vectors(file_id, text), called
\* as it is declared.  A text is represented by the number of nodes the
\* library's splitter cuts it into.  The Document is built from text and
\* metadata only, so the library assigns the document id and the node ids
\* itself (fresh UUIDs); from_documents and insert both add the nodes to the
\* collection.
MaxNodes == 2
MaxRuns == 4

Texts == 1..MaxNodes

NewNodes(d, x, first) == {[id |-> first + i - 1, file_id |-> d, pos |-> i] : i \in 1..x}

IdsOf(ix, d) == {n.id : n \in {m \in ix : m.file_id = d}}

VectorRuns == SumUpTo([d \in Docs |-> Len(ran[d])], MaxDocs)

process_text_to_vectors(d, x) ==
    /\ VectorRuns < MaxRuns
    /\ index' = index \cup NewNodes(d, x, next_id)
    /\ index_handle' = TRUE
    /\ next_id' = next_id + x
    /\ ran' = [ran EXCEPT ![d] = Append(@, [text |-> x, ids |-> IdsOf(index', d)])]
    /\ UNCHANGED <<qvars, pvars, wvars, fault, dvars, events, svars, cvars, mvars, nvars, tvars>>

delete_collection(coll, d) == {}

\* VectorProcessingService.delete_file_vectors(file_id) on the collection
\* "contracts": get(where file_id), delete(ids) when there are any
delete_file_vectors(coll, d) == {c \in coll : c.file_id # d}

\* DELETE /files/{file_id}: the row is found (404 otherwise), the blob is
\* deleted, the vectors are deleted through VectorProcessingService, the row
\* is deleted and the session committed.
delete_file(d) ==
    /\ d \notin deleted
    /\ collection' = delete_file_vectors(collection, d)
    /\ deleted' = deleted \cup {d}
    /\ UNCHANGED <<qvars, pvars, wvars, fault, dvars, index, index_handle,
                   next_id, ran, events, last, cvars, mvars, nvars, tvars>>

InitVector == Init /\ fault = "ok"

NextVector ==
    \/ \E d \in Docs, x \in Texts : process_text_to_vectors(d, x)
    \/ \E d \in Docs : delete_file(d)

SpecVector == InitVector /\ [][NextVector]_vars

\* --------------------------------------------------------------- chunking
\* VectorProcessingService.chunk_text.  A text is represented by the sequence
\* of the tokens the tokenizer cuts it into: " " is a token of whitespace
\* only, "w" a token with visible characters, "." a full stop, and "<s>" the
\* literal of a special token, on which tokenizer.encode raises.  decode
\* gives back the text of a token window; str.strip removes the whitespace
\* at its two ends.
MaxTokens == 4
MaxChunkSize == 3

Units == {" ", "w", ".", "<s>"}

TokenTexts == UNION {[1..n -> Units] : n \in 0..MaxTokens}

Blank(s) == \A i \in 1..Len(s) : s[i] = " "

RECURSIVE lstrip(_)
lstrip(s) == IF s # <<>> /\ Head(s) = " " THEN lstrip(Tail(s)) ELSE s

RECURSIVE rstrip(_)
rstrip(s) == IF s # <<>> /\ s[Len(s)] = " " THEN rstrip(SubSeq(s, 1, Len(s) - 1)) ELSE s

strip_none(s) == s

strip(s) == rstrip(lstrip(s))

Encodable(s) == \A i \in 1..Len(s) : s[i] # "<s>"

Min(a, b) == IF a < b THEN a ELSE b

\* the piece text[a+1..b] between two full stops, as the fallback returns it
Sentence(s, a, b) ==
    IF Blank(SubSeq(s, a + 1, b)) THEN <<>>
    ELSE <<[start |-> a, end |-> b, text |-> Append(strip(SubSeq(s, a + 1, b)), ".")]>>

\* text.split('.') scanned from position i, the current piece starting after a
RECURSIVE Sentences(_, _, _)
Sentences(s, a, i) ==
    IF i > Len(s) THEN Sentence(s, a, Len(s))
    ELSE IF s[i] = "." THEN Sentence(s, a, i - 1) \o Sentences(s, i, i + 1)
    ELSE Sentences(s, a, i + 1)

\* the chunk of the token window tokens[i:i+size], kept when it is not blank;
\* start and end are the token offsets of the window
Window(tokens, size, i) ==
    IF Blank(SubSeq(tokens, i + 1, Min(i + size, Len(tokens)))) THEN <<>>
    ELSE <<[start |-> i, end |-> Min(i + size, Len(tokens)),
            text |-> strip(SubSeq(tokens, i + 1, Min(i + size, Len(tokens))))]>>

ChunkLoopNoBreak(tokens, size, i) == FALSE

ChunkLoopBreak(tokens, size, i) == i + size >= Len(tokens)

\* for i in range(0, len(tokens), chunk_size - chunk_overlap), from offset i
RECURSIVE ChunkLoop(_, _, _, _)
ChunkLoop(tokens, size, overlap, i) ==
    IF i >= Len(tokens) THEN <<>>
    ELSE IF ChunkLoopBreak(tokens, size, i) THEN Window(tokens, size, i)
    ELSE Window(tokens, size, i) \o ChunkLoop(tokens, size, overlap, i + (size - overlap))

chunk_text(s, size, overlap) ==
    IF Blank(s) THEN <<>>
    ELSE IF ~Encodable(s) THEN Sentences(s, 0, 1)
    ELSE ChunkLoop(s, size, overlap, 0)

\* chunk_text applied to the arguments drawn in InitChunk
chunk_text_call ==
    /\ ~returned.called
    /\ returned' = [called |-> TRUE, list |-> chunk_text(text, chunk_size, chunk_overlap)]
    /\ UNCHANGED <<qvars, pvars, wvars, fault, dvars, index, index_handle,
                   next_id, ran, events, svars, text, chunk_size, chunk_overlap, mvars, nvars, tvars>>

\* the arguments of a call: any text, 0 <= chunk_overlap < chunk_size
InitChunk ==
    /\ InitQueue /\ fault = "ok"
    /\ InitIndex /\ InitStore /\ InitMetadata /\ InitServices
    /\ text \in TokenTexts
    /\ chunk_size \in 1..MaxChunkSize
    /\ chunk_overlap \in 0..(chunk_size - 1)
    /\ returned = NotCalled

NextChunk == chunk_text_call

SpecChunk == InitChunk /\ [][NextChunk]_vars

\* ------------------------------------------------- VectorProcessingService
\* The service that keeps the Chroma collection "contracts".  A chunk string
\* is represented by its position in the list it came in (0: a string that is
\* empty or whitespace only); an embedding by the position of the string it
\* was computed from (0: an empty vector).
MaxStore == 1

\* a text of n tokens, each with visible characters
WordText(n) == [i \in 1..n |-> "w"]

\* the texts given to process_text_to_vectors: an empty and a blank one, texts
\* of one window, a text with a special token and two sentences, and a text
\* one token longer than a window of the configured size
StoreTexts ==
    {<<>>, <<" ">>, <<"w">>, <<" ", "w", ".">>, <<"<s>", ".", "w">>,
     WordText(settings_chunk_size + 1)}

ChunkLabels(cs) == [k \in 1..Len(cs) |-> IF Blank(cs[k].text) THEN 0 ELSE k]

\* the chunk lists chunk_text(text) returns with the configured arguments
ChunkLists ==
    {ChunkLabels(chunk_text(x, settings_chunk_size, settings_chunk_overlap)) :
        x \in StoreTexts}

\* what genai.embed_content does for each string of a call: "vec" a result
\* with an embedding, "empty" a result whose embedding is empty, "none" a
\* result of an unexpected format, "raise" the call raises
Responses(n) == [1..n -> {"vec", "empty", "none"}] \cup {[k \in 1..n |-> "raise"]}

Raises(resp) == \E k \in 1..Len(resp) : resp[k] = "raise"

\* generate_embeddings from the k-th string on: blank strings and results of
\* an unexpected format are skipped
RECURSIVE generate_embeddings(_, _, _)
generate_embeddings(texts, resp, k) ==
    IF k > Len(texts) THEN <<>>
    ELSE (IF texts[k] = 0 \/ resp[k] = "none" THEN <<>>
          ELSE <<IF resp[k] = "empty" THEN 0 ELSE k>>)
         \o generate_embeddings(texts, resp, k + 1)

\* chunk_id = f"{file_id}_chunk_{i}", i the position in the list passed in
ChunkId(d, i) == <<d, i>>

Chunk(d, i, chunk, embedding) ==
    [id |-> ChunkId(d, i), file_id |-> d, chunk_index |-> i,
     document |-> chunk, embedding |-> embedding]

ValidAll(chunks, embeddings) == 1..Len(chunks)

\* the positions store_vectors keeps: `if chunk.strip() and embedding`
Valid(chunks, embeddings) ==
    {i \in 1..Len(chunks) : chunks[i] # 0 /\ embeddings[i] # 0}

\* collection.add: a record whose id is already in the collection is skipped
CollectionAdd(coll, recs) == coll \cup {r \in recs : \A c \in coll : c.id # r.id}

\* store_vectors(file_id, chunks, embeddings): the outcome and the collection
store_vectors(coll, d, chunks, embeddings) ==
    IF Len(chunks) # Len(embeddings)
    THEN [raised |-> TRUE, coll |-> coll]
    ELSE IF Valid(chunks, embeddings) = {}
    THEN [raised |-> FALSE, coll |-> coll]
    ELSE [raised |-> FALSE,
          coll |-> CollectionAdd(coll, {Chunk(d, i - 1, chunks[i], embeddings[i]) :
                                           i \in Valid(chunks, embeddings)})]

ChunksOf(coll, d) == {c \in coll : c.file_id = d}

StoreInputs == UNION {[1..n -> 0..MaxStore] : n \in 0..MaxStore}

\* a direct call: every string blank or not, every vector empty or the
\* vector of the string at its position
store_vectors_call(d, chunks, embeddings) ==
    /\ \A i \in 1..Len(chunks) : chunks[i] \in {0, i}
    /\ \A i \in 1..Len(embeddings) : embeddings[i] \in {0, i}
    /\ collection' = store_vectors(collection, d, chunks, embeddings).coll
    /\ last' = [op |-> "store_vectors", file_id |-> d, chunks |-> chunks,
                embeddings |-> embeddings, resp |-> <<>>,
                raised |-> store_vectors(collection, d, chunks, embeddings).raised]
    /\ UNCHANGED <<qvars, pvars, wvars, fault, dvars, index, index_handle,
                   next_id, ran, events, deleted, cvars, mvars, nvars, tvars>>

NothingToProcessIgnored(cs, embeddings) == FALSE

\* the checks of process_text_to_vectors before the store: `if not text or not
\* text.strip()`, `if not chunks` (a blank text and a text without usable
\* chunk both give the empty list) and `if not embeddings`, each raising
NothingToProcess(cs, embeddings) == cs = <<>> \/ embeddings = <<>>

\* VectorProcessingService.process_text_to_vectors(file_id, text): cs is
\* chunk_text(text); it raises on no text, no chunks, no embeddings, and when
\* generate_embeddings or store_vectors raises
process_text_to_vectors_contracts(d, cs, resp) ==
    /\ Len(resp) = Len(cs)
    /\ LET embeddings == IF cs = <<>> \/ Raises(resp) THEN <<>>
                         ELSE generate_embeddings(cs, resp, 1)
           stored == store_vectors(collection, d, cs, embeddings)
           raised == NothingToProcess(cs, embeddings) \/ Raises(resp) \/ stored.raised
       IN /\ collection' = IF raised THEN collection ELSE stored.coll
          /\ last' = [op |-> "process_text_to_vectors", file_id |-> d, chunks |-> cs,
                      embeddings |-> embeddings, resp |-> resp, raised |-> raised]
    /\ UNCHANGED <<qvars, pvars, wvars, fault, dvars, index, index_handle,
                   next_id, ran, events, deleted, cvars, mvars, nvars, tvars>>

\* delete_file_vectors(file_id), which returns True
delete_file_vectors_call(d) ==
    /\ collection' = delete_file_vectors(collection, d)
    /\ last' = [op |-> "delete_file_vectors", file_id |-> d, chunks |-> <<>>,
                embeddings |-> <<>>, resp |-> <<>>, raised |-> FALSE,
                removed |-> ChunksOf(collection, d) # {},
                again |-> /\ last.op = "delete_file_vectors"
                          /\ last.file_id = d
                          /\ last.removed]
    /\ UNCHANGED <<qvars, pvars, wvars, fault, dvars, index, index_handle,
                   next_id, ran, events, deleted, cvars, mvars, nvars, tvars>>

InitStoreService == Init /\ fault = "ok"

NextStore ==
    \/ \E d \in Docs, chunks \in StoreInputs, embeddings \in StoreInputs :
           store_vectors_call(d, chunks, embeddings)
    \/ \E d \in Docs, cs \in ChunkLists :
           \E resp \in Responses(Len(cs)) : process_text_to_vectors_contracts(d, cs, resp)
    \/ \E d \in Docs : delete_file_vectors_call(d)

SpecStore == InitStoreService /\ [][NextStore]_vars

\* ------------------------------------------------------------------ search
\* query_file_contracts of vector_search.py (over the index of the collection
\* "contract_docs") and of vector_search_old.py (over "contracts").  What the
\* retriever hands back depends on the similarity of the stored vectors to the
\* query: it is any set of stored nodes of at most the requested size.  A
\* query changes neither store, so a behaviour is one query on the stores
\* drawn in InitSearch.
SearchNodes ==
    {[id |-> (d - 1) * MaxNodes + i, file_id |-> d, pos |-> i] : d \in Docs, i \in 1..MaxNodes}

AtMost(S, k) == {R \in SUBSET S : Cardinality(R) <= k}

SourcesUnfiltered(nodes, d) == nodes

\* `if node.metadata.get('file_id') == file_id`
SourcesOf(nodes, d) == {n \in nodes : n.file_id = d}

\* vector_search.py: no index gives an error without sources; a query that
\* raises (ok is FALSE) gives an error without sources
query_file_contracts(d, retrieved, ok) ==
    /\ last.op = "none"
    /\ retrieved \in AtMost(index, similarity_top_k)
    /\ (~index_handle \/ ~ok) => retrieved = {}
    /\ last' = [op |-> "query_file_contracts", file_id |-> d, retrieved |-> retrieved,
                status |-> IF index_handle /\ ok THEN "success" ELSE "error",
                sources |-> IF index_handle /\ ok THEN SourcesOf(retrieved, d) ELSE {}]
    /\ UNCHANGED <<qvars, pvars, wvars, fault, dvars, index, index_handle,
                   next_id, ran, events, collection, deleted, cvars, mvars, nvars, tvars>>

\* vector_search_old.py: an empty collection or no chunk of the file gives an
\* error without sources; the sources come from source_nodes[:top_k]
query_file_contracts_old(d, retrieved, ok) ==
    /\ last.op = "none"
    /\ retrieved \in AtMost(collection, Min(top_k * 2, Cardinality(ChunksOf(collection, d))))
    /\ ~ok => retrieved = {}
    /\ \E head \in AtMost(retrieved, top_k) :
        /\ Cardinality(head) = Min(top_k, Cardinality(retrieved))
        /\ last' = [op |-> "query_file_contracts_old", file_id |-> d, retrieved |-> retrieved,
                    status |-> IF ChunksOf(collection, d) # {} /\ ok THEN "success" ELSE "error",
                    sources |-> IF ok THEN SourcesOf(head, d) ELSE {}]
    /\ UNCHANGED <<qvars, pvars, wvars, fault, dvars, index, index_handle,
                   next_id, ran, events, collection, deleted, cvars, mvars, nvars, tvars>>

\* the two stores as a search service finds them when it is constructed: any
\* nodes of any files, the same files and positions in both; the index handle
\* is set when the collection is not empty
InitSearch ==
    /\ InitQueue /\ fault = "ok" /\ InitConfig /\ InitMetadata /\ InitServices
    /\ index \in SUBSET SearchNodes
    /\ index_handle = (index # {})
    /\ next_id = MaxDocs * MaxNodes + 1
    /\ ran = [d \in Docs |-> <<>>]
    /\ collection = {Chunk(n.file_id, n.pos - 1, n.pos, n.pos) : n \in index}
    /\ deleted = {}
    /\ last = NoCall

NextSearch ==
    \E d \in Docs, ok \in BOOLEAN :
        \/ \E retrieved \in SUBSET index : query_file_contracts(d, retrieved, ok)
        \/ \E retrieved \in SUBSET collection : query_file_contracts_old(d, retrieved, ok)

SpecSearch == InitSearch /\ [][NextSearch]_vars

\* ---------------------------------------------------- metadata normalization
\* MetadataExtractionService._validate_and_clean_metadata and the two
\* functions it derives the dates, the status and the tag with.  Time is
\* counted in half days: midnight of day n is 2 * n, today is day 0 and
\* current_date is 0 (midnight exactly) or 1 (later in the day).
ExpirySoon == 30
ExpiryLater == 90
MinVendorLength == 3

date_patterns ==
    {"%Y-%m-%d", "%d-%m-%Y", "%m-%d-%Y", "%d/%m/%Y", "%m/%d/%Y", "%Y/%m/%d",
     "%d.%m.%Y", "%Y.%m.%d", "%B %d, %Y", "%b %d, %Y", "%d %B %Y", "%d %b %Y"}

\* str.strip() and str.lower() on the strings of the model
strip_str(s) == CASE s = " NA " -> "NA" [] s = "  " -> "" [] OTHER -> s

lower(s) == CASE s = "NA" -> "na" [] s = "N/A" -> "n/a" [] s = "TBD" -> "tbd" [] OTHER -> s

len(s) ==
    CASE s = "" -> 0 [] s = "NA" -> 2 [] s = "AB" -> 2 [] s = "  " -> 2
      [] s = "n/a" -> 3 [] s = "N/A" -> 3 [] OTHER -> 4

\* str(value)
str(v) == IF v.t = "str" THEN v ELSE Str(v.s)

\* re.sub(r'(\d+)(st|nd|rd|th)', r'\1', date_string) on a format
WithoutOrdinal(fmt) == IF fmt = "%dth %B %Y" THEN "%d %B %Y" ELSE fmt

\* _normalize_date(date_string): "NA" for an absent value, DD-MM-YYYY for a
\* string one of the patterns parses (as written, or without the ordinal
\* suffix), the stripped string otherwise
_normalize_date(v) ==
    IF v.s = "" \/ lower(strip_str(v.s)) \in {"na", "", "n/a"} THEN Str("NA")
    ELSE IF v.fmt \in date_patterns \/ WithoutOrdinal(v.fmt) \in date_patterns
         THEN DateStr("%d-%m-%Y", v.day)
         ELSE [v EXCEPT !.s = strip_str(v.s)]

UnidentifiedNever(vendor_name) == FALSE

\* `if vendor_name in ['NA', '', 'n/a'] or len(vendor_name) < 3`, on the
\* stripped vendor_name
Unidentified(vendor_name) ==
    vendor_name \in {"NA", "", "n/a"} \/ len(vendor_name) < MinVendorLength

\* `if start_date and start_date not in ['NA', '', 'n/a']` is false
NoDate(v) == v.s \in {"NA", "", "n/a"}

\* datetime.strptime(v, "%d-%m-%Y") raises ValueError
Unparsable(v) == ~NoDate(v) /\ v.fmt # "%d-%m-%Y"

\* (end_dt - current_date).days
days_to_expiry(end_date) == (2 * end_date.day - current_date) \div 2

StatusWithoutExpiry(start_date, end_date) ==
    IF NoDate(start_date) THEN "Draft" ELSE "Active"

\* the if/elif chain on start_dt, end_dt and current_date
Status(start_date, end_date) ==
    IF NoDate(start_date) THEN "Draft"
    ELSE IF NoDate(end_date) THEN "Active"
    ELSE IF 2 * end_date.day < current_date THEN "Expired"
    ELSE IF 2 * start_date.day <= current_date /\ current_date <= 2 * end_date.day
         THEN "Active"
         ELSE "Draft"

Tag(status, end_date) ==
    IF status = "Active" /\ ~NoDate(end_date)
    THEN (IF days_to_expiry(end_date) < ExpirySoon THEN "Expiry < 30 days"
          ELSE IF days_to_expiry(end_date) <= ExpiryLater THEN "Expiry 30 to 90 days"
          ELSE "Expiry > 90 days")
    ELSE "NA"

\* _calculate_contract_status_and_tag(start_date, end_date, metadata); it
\* raises AttributeError when vendor_name is not a string
_calculate_contract_status_and_tag(start_date, end_date, metadata) ==
    IF metadata.vendor_name.t # "str"
    THEN [raised |-> TRUE, status |-> "", tag |-> ""]
    ELSE IF Unidentified(strip_str(metadata.vendor_name.s))
            \/ Unparsable(start_date) \/ Unparsable(end_date)
         THEN [raised |-> FALSE, status |-> "Draft", tag |-> "NA"]
         ELSE [raised |-> FALSE, status |-> Status(start_date, end_date),
               tag |-> Tag(Status(start_date, end_date), end_date)]

\* `if field not in metadata or metadata[field] is None: metadata[field] = "NA"`
Required(v) == IF v.t = "null" THEN Str("NA") ELSE v

\* the clean-up loop: "NA" for a blank string, str(value) for another type
CleanUp(v) == IF v.t = "str" /\ strip_str(v.s) = "" THEN Str("NA") ELSE str(v)

KeepProposed(value, calculated) == IF value = Str("NA") THEN Str(calculated) ELSE value

\* metadata["contract_status"] = calculated_status, and the same for the tag
Calculated(value, calculated) == Str(calculated)

\* _validate_and_clean_metadata(metadata), on the fields the status and the
\* tag are derived from
_validate_and_clean_metadata(metadata) ==
    LET required == [f \in DOMAIN metadata |-> Required(metadata[f])]
        dated == [required EXCEPT !.start_date = _normalize_date(str(@)),
                                  !.end_date = _normalize_date(str(@))]
        calculated == _calculate_contract_status_and_tag(dated.start_date, dated.end_date, dated)
        assigned == [dated EXCEPT
                        !.contract_status = Calculated(@, calculated.status),
                        !.contract_tag = Calculated(@, calculated.tag)]
    IN IF calculated.raised
       THEN [called |-> TRUE, raised |-> TRUE, metadata |-> dated]
       ELSE [called |-> TRUE, raised |-> FALSE,
             metadata |-> [f \in DOMAIN assigned |-> CleanUp(assigned[f])]]

\* _validate_and_clean_metadata applied to the dict drawn in InitNormalize
_validate_and_clean_metadata_call ==
    /\ ~cleaned.called
    /\ cleaned' = _validate_and_clean_metadata(proposed)
    /\ UNCHANGED <<qvars, pvars, wvars, fault, dvars, index, index_handle,
                   next_id, ran, events, svars, cvars, proposed, current_date,
                   nvars, tvars>>

\* days around today and around the limits of the expiry bands
Days == {-1, 0, 1, ExpirySoon, ExpirySoon + 1, ExpiryLater + 1, ExpiryLater + 2}

\* what the model may give for a date: absent values, dates in the canonical
\* format, dates in other formats the patterns parse, with an ordinal suffix
\* or in a format no pattern parses, free text and a number
Dates ==
    {None, Str("NA"), Str(""), Str("n/a"), Str("N/A"), Str("TBD"), Num("2024")}
        \cup {DateStr("%d-%m-%Y", n) : n \in Days}
        \cup {DateStr(fmt, n) : fmt \in {"%Y-%m-%d", "%B %d, %Y", "%dth %B %Y", "%Y%m%d"},
                                n \in {-1, ExpirySoon + 1}}

Vendors == {None, Str("NA"), Str(" NA "), Str(""), Str("N/A"), Str("AB"), Str("Acme"), Num("7")}

Statuses == {None, Str("Active"), Str("Expired"), Str("Signed")}

Tags == {Str("NA"), Str("Expiry > 90 days"), Str("No expiry date")}

InitNormalize ==
    /\ InitQueue /\ fault = "ok"
    /\ InitIndex /\ InitStore /\ InitConfig /\ InitServices
    /\ proposed \in [start_date : Dates, end_date : Dates, vendor_name : Vendors,
                     contract_status : Statuses, contract_tag : Tags]
    /\ current_date \in {0, 1}
    /\ cleaned = NotCleaned

NextNormalize == _validate_and_clean_metadata_call

SpecNormalize == InitNormalize /\ [][NextNormalize]_vars

\* ------------------------------------------------------ ConnectionManager
\* Every WebSocket is served by one websocket_endpoint coroutine. The sockets
\* are numbered in the order in which they are accepted; the user id is the
\* argument the endpoint was opened with.
user_id_of(s) == IF s % 2 = 1 THEN "default" ELSE "other"

Users == {user_id_of(s) : s \in Sockets}

Elems(l) == {l[i] : i \in 1..Len(l)}

\* list.remove(x) on a list in which x occurs at most once
Remove(l, x) == SelectSeq(l, LAMBDA y : y # x)

\* `del d[k]`
Del(d, k) == [x \in DOMAIN d \ {k} |-> d[x]]

\* connection.send_text raises once the peer of the socket went away
SendRaises(s) == socket[s] # "open"

\* a broadcast that is suspended in a send sees the connections that join
\* (during) and those that leave (stayed) meanwhile
Joined(b, s) ==
    IF b.pc = "loop" THEN [b EXCEPT !.during = @ \cup {s}] ELSE b

Left(b, S) ==
    IF b.pc = "loop" THEN [b EXCEPT !.stayed = @ \ S] ELSE b

\* connect(): after `await websocket.accept()` the two registrations are made
\* without a suspension in between
connect(s) ==
    /\ socket[s] = "new"
    /\ \A k \in Sockets : k < s => socket[k] # "new"
    /\ socket' = [socket EXCEPT ![s] = "open"]
    /\ active_connections' = Append(active_connections, s)
    /\ LET u == user_id_of(s)
           uc == IF u \in DOMAIN user_connections THEN user_connections
                 ELSE (u :> <<>>) @@ user_connections
       IN user_connections' = [uc EXCEPT ![u] = Append(@, s)]
    /\ broadcasting' = Joined(broadcasting, s)
    /\ UNCHANGED <<sending, qvars, pvars, wvars, fault, dvars, index,
                   index_handle, next_id, ran, events, svars, cvars, mvars,
                   tvars>>

\* disconnect(websocket, user_id): the registry it leaves
disconnect(ac, uc, s, u) ==
    [active |-> IF s \in Elems(ac) THEN Remove(ac, s) ELSE ac,
     users  |-> IF u \in DOMAIN uc
                THEN LET l == IF s \in Elems(uc[u]) THEN Remove(uc[u], s)
                              ELSE uc[u]
                     IN IF l = <<>> THEN Del(uc, u) ELSE [uc EXCEPT ![u] = l]
                ELSE uc]

\* the peer closes the socket; its endpoint is still suspended in receive_text
peer_leaves(s) ==
    /\ socket[s] = "open"
    /\ socket' = [socket EXCEPT ![s] = "gone"]
    /\ UNCHANGED <<active_connections, user_connections, broadcasting, sending,
                   qvars, pvars, wvars, fault, dvars, index, index_handle,
                   next_id, ran, events, svars, cvars, mvars, tvars>>

\* websocket_endpoint: receive_text raises WebSocketDisconnect and the handler
\* calls manager.disconnect(websocket, user_id)
websocket_endpoint(s) ==
    /\ socket[s] = "gone"
    /\ socket' = [socket EXCEPT ![s] = "closed"]
    /\ LET u == user_id_of(s)
           reg == disconnect(active_connections, user_connections, s, u)
       IN /\ active_connections' = reg.active
          /\ user_connections' = reg.users
          /\ sending' =
                IF sending.pc = "loop" /\ sending.user_id = u
                   /\ u \notin DOMAIN reg.users
                THEN [sending EXCEPT !.detached = TRUE]
                ELSE sending
    /\ broadcasting' = Left(broadcasting, {s})
    /\ UNCHANGED <<qvars, pvars, wvars, fault, dvars, index, index_handle,
                   next_id, ran, events, svars, cvars, mvars, tvars>>

SameIndex(i) == i

\* the list iterator of `for connection in ...` moves on by one
NextIndex(i) == i + 1

\* broadcast(): from one suspension to the next. The iterator reads the live
\* list at its index; a send is attempted and the coroutine is suspended in
\* it, or the list is exhausted, the failed connections are removed from
\* active_connections and the call returns.
broadcast_step(b) ==
    IF b.idx <= Len(active_connections)
    THEN LET c == active_connections[b.idx]
         IN /\ broadcasting' =
                 [b EXCEPT !.pc = "loop",
                           !.idx = NextIndex(@),
                           !.tried[c] = @ + 1,
                           !.got = IF SendRaises(c) THEN @ ELSE @ \cup {c},
                           !.disconnected =
                               IF SendRaises(c) THEN Append(@, c) ELSE @]
            /\ UNCHANGED active_connections
    ELSE /\ active_connections' =
              SelectSeq(active_connections,
                        LAMBDA c : c \notin Elems(b.disconnected))
         /\ broadcasting' =
              [b EXCEPT !.pc = "done", !.idx = 0, !.disconnected = <<>>]

\* notify_*() -> broadcast(message): the call, up to its first suspension.
\* One broadcast call is followed at a time.
broadcast ==
    /\ broadcasting.pc \in {"ready", "done"}
    /\ broadcast_step([NoBroadcast EXCEPT
                          !.idx = 1,
                          !.at_publish = Elems(active_connections),
                          !.during = Elems(active_connections),
                          !.stayed = Elems(active_connections)])
    /\ UNCHANGED <<socket, user_connections, sending, qvars, pvars, wvars,
                   fault, dvars, index, index_handle, next_id, ran, events,
                   svars, cvars, mvars, tvars>>

\* broadcast(): resumed after a send
broadcast_resume ==
    /\ broadcasting.pc = "loop"
    /\ broadcast_step(broadcasting)
    /\ UNCHANGED <<socket, user_connections, sending, qvars, pvars, wvars,
                   fault, dvars, index, index_handle, next_id, ran, events,
                   svars, cvars, mvars, tvars>>

\* the registry after disconnect() was called for each element of cs
RECURSIVE disconnect_all(_, _, _, _)
disconnect_all(ac, uc, cs, u) ==
    IF cs = <<>> THEN [active |-> ac, users |-> uc]
    ELSE LET reg == disconnect(ac, uc, Head(cs), u)
         IN disconnect_all(reg.active, reg.users, Tail(cs), u)

\* send_to_user(): from one suspension to the next. The iterator holds the
\* list object of the user; once that entry was deleted from the dict the
\* object is empty and no longer the one a later connect() registers.
send_to_user_step(sd) ==
    LET l == IF sd.detached THEN <<>> ELSE user_connections[sd.user_id]
    IN IF sd.idx <= Len(l)
       THEN LET c == l[sd.idx]
            IN /\ sending' =
                    [sd EXCEPT !.pc = "loop",
                               !.idx = @ + 1,
                               !.disconnected =
                                   IF SendRaises(c) THEN Append(@, c) ELSE @]
               /\ UNCHANGED <<active_connections, user_connections,
                              broadcasting>>
       ELSE LET reg == disconnect_all(active_connections, user_connections,
                                      sd.disconnected, sd.user_id)
            IN /\ active_connections' = reg.active
               /\ user_connections' = reg.users
               /\ broadcasting' = Left(broadcasting, Elems(sd.disconnected))
               /\ sending' = NotSending

\* send_to_user(message, user_id) for a user that has connections
send_to_user(u) ==
    /\ sending.pc = "idle"
    /\ u \in DOMAIN user_connections
    /\ send_to_user_step([NotSending EXCEPT !.user_id = u, !.idx = 1])
    /\ UNCHANGED <<socket, qvars, pvars, wvars, fault, dvars, index,
                   index_handle, next_id, ran, events, svars, cvars, mvars,
                   tvars>>

\* send_to_user(): resumed after a send
send_to_user_resume ==
    /\ sending.pc = "loop"
    /\ send_to_user_step(sending)
    /\ UNCHANGED <<socket, qvars, pvars, wvars, fault, dvars, index,
                   index_handle, next_id, ran, events, svars, cvars, mvars,
                   tvars>>

NextSocket ==
    \/ \E s \in Sockets : connect(s)
    \/ \E s \in Sockets : peer_leaves(s)
    \/ \E s \in Sockets : websocket_endpoint(s)
    \/ broadcast
    \/ broadcast_resume
    \/ \E u \in Users : send_to_user(u)
    \/ send_to_user_resume

InitSocket == Init /\ fault = "ok"

SpecSocket == InitSocket /\ [][NextSocket]_vars

\* -------------------------------------------------------------- TaskQueue
\* task_queue.py: the queue main.py starts at startup and stops at shutdown.
\* start_worker() and stop_worker() are called one after the other.
WorkerLoopTop == IF running THEN "get" ELSE "done"

\* start_worker(): `if self.running: return`, else the flag and the task
start_worker ==
    /\ ~running
    /\ ~stopping_worker
    /\ running' = TRUE
    /\ worker_task' = [pc |-> "created", task |-> NoTask, cancelled |-> FALSE]
    /\ UNCHANGED <<tasks, results, stopping_worker, qvars, pvars, wvars, fault,
                   dvars, index, index_handle, next_id, ran, events, svars,
                   cvars, mvars, nvars>>

\* stop_worker() up to its await: the flag is cleared and the task, if there
\* is one, is cancelled (cancel() on a task that is done does nothing)
stop_worker ==
    /\ ~stopping_worker
    /\ running' = FALSE
    /\ IF worker_task.pc = "none"
       THEN UNCHANGED <<worker_task, stopping_worker>>
       ELSE /\ worker_task' =
                 [worker_task EXCEPT !.cancelled = worker_task.pc # "done"]
            /\ stopping_worker' = TRUE
    /\ UNCHANGED <<tasks, results, qvars, pvars, wvars, fault, dvars, index,
                   index_handle, next_id, ran, events, svars, cvars, mvars,
                   nvars>>

\* `await self.worker_task` returns or raises CancelledError, which is passed
stop_worker_returns ==
    /\ stopping_worker
    /\ worker_task.pc = "done"
    /\ stopping_worker' = FALSE
    /\ UNCHANGED <<tasks, results, running, worker_task, qvars, pvars, wvars,
                   fault, dvars, index, index_handle, next_id, ran, events,
                   svars, cvars, mvars, nvars>>

\* uuid4: an id no task had before
NewTaskId == Cardinality(DOMAIN results) + 1

\* add_upload_task(file_paths): the result is set to queued, then the task is
\* put on the unbounded queue
add_upload_task ==
    /\ NewTaskId <= MaxTasks
    /\ results' = (NewTaskId :> "queued") @@ results
    /\ tasks' = Append(tasks, NewTaskId)
    /\ UNCHANGED <<running, worker_task, stopping_worker, qvars, pvars, wvars,
                   fault, dvars, index, index_handle, next_id, ran, events,
                   svars, cvars, mvars, nvars>>

\* get_task_status(task_id): the status of results.get(task_id, not_found)
get_task_status(id) ==
    IF id \in DOMAIN results THEN results[id] ELSE "not_found"

\* the worker coroutine is first run: `while self.running`
task_worker_begin ==
    /\ worker_task.pc = "created" /\ ~worker_task.cancelled
    /\ worker_task' = [worker_task EXCEPT !.pc = WorkerLoopTop]
    /\ UNCHANGED <<tasks, results, running, stopping_worker, qvars, pvars,
                   wvars, fault, dvars, index, index_handle, next_id, ran,
                   events, svars, cvars, mvars, nvars>>

\* wait_for(queue.get()) hands over the oldest task; the result is set to
\* processing and async_upload_pdfs is awaited. (A timeout of the wait leads
\* back to the same wait while running is set.)
task_worker_get ==
    /\ worker_task.pc = "get" /\ ~worker_task.cancelled
    /\ tasks # <<>>
    /\ tasks' = Tail(tasks)
    /\ results' = [results EXCEPT ![Head(tasks)] = "processing"]
    /\ worker_task' = [worker_task EXCEPT !.pc = "upload", !.task = Head(tasks)]
    /\ UNCHANGED <<running, stopping_worker, qvars, pvars, wvars, fault, dvars,
                   index, index_handle, next_id, ran, events, svars, cvars,
                   mvars, nvars>>

\* async_upload_pdfs returned its dict (status success or error) or raised an
\* Exception (status error); task_done, next iteration
task_worker_upload(status) ==
    /\ worker_task.pc = "upload" /\ ~worker_task.cancelled
    /\ results' = [results EXCEPT ![worker_task.task] = status]
    /\ worker_task' = [worker_task EXCEPT !.pc = WorkerLoopTop, !.task = NoTask]
    /\ UNCHANGED <<tasks, running, stopping_worker, qvars, pvars, wvars, fault,
                   dvars, index, index_handle, next_id, ran, events, svars,
                   cvars, mvars, nvars>>

\* CancelledError is thrown into the worker at its await. It is not an
\* Exception: neither handler of _worker catches it, only task_done() of the
\* finally clause runs, and the results entry of the task in hand is left
\* as it is.
task_worker_cancelled ==
    /\ worker_task.cancelled
    /\ worker_task' = [pc |-> "done", task |-> NoTask, cancelled |-> FALSE]
    /\ UNCHANGED <<tasks, results, running, stopping_worker, qvars, pvars,
                   wvars, fault, dvars, index, index_handle, next_id, ran,
                   events, svars, cvars, mvars, nvars>>

NextTask ==
    \/ start_worker
    \/ stop_worker
    \/ stop_worker_returns
    \/ add_upload_task
    \/ task_worker_begin
    \/ task_worker_get
    \/ \E status \in {"success", "error"} : task_worker_upload(status)
    \/ task_worker_cancelled

InitTask == Init /\ fault = "ok"

SpecTask == InitTask /\ [][NextTask]_vars

\* ------------------------------------------------------------- vocabulary
Stages == {"pending", "processing", "completed", "failed"}

Terminal(s) == s \in {"completed", "failed"}

\* task t holds a dequeued job of file d
Processing(t, d) == cur[t] = d /\ pc[t] \in {"process", "extract", "vectors", "except", "sleep", "stalled"}

InFlight(d) == Cardinality({t \in Tasks : Processing(t, d)})

RECURSIVE CountIn(_, _)
CountIn(q, d) == IF q = <<>> THEN 0
                 ELSE (IF Head(q) = d THEN 1 ELSE 0) + CountIn(Tail(q), d)

\* the single job of file d has left the worker's retry loop
JobEnded(d) == enq[d] = 1 /\ acks[d] = 1

\* ProcessingQueue.get_queue_status(): qsize, the tasks of the list that are
\* not done, the length of the list
get_queue_status ==
    [is_running |-> is_running,
     queue_size |-> Len(queue),
     active_workers |-> Cardinality({i \in 1..Len(workers) : pc[workers[i]] # "done"}),
     total_workers |-> Len(workers)]

\* the jobs that were put and not handed to a worker yet
Waiting == SumUpTo([d \in Docs |-> enq[d] - taken[d]], MaxDocs)

\* the jobs a worker holds
JobsInFlight == SumUpTo([d \in Docs |-> InFlight(d)], MaxDocs)

\* GET /files/{file_id}/status: the committed row and error rows
get_file_status(d) ==
    [vector_processing_status |-> vec[d],
     metadata_processing_status |-> meta[d],
     processing_attempts |-> attempts[d],
     errors |-> errs[d]]

EmittedBefore(d, a, b) ==
    \E i, j \in 1..Len(events) :
        /\ i < j
        /\ events[i] = [file_id |-> d, status |-> a]
        /\ events[j] = [file_id |-> d, status |-> b]

\* chunk_text was called on a text that is tokenized and not blank
Split == returned.called /\ ~Blank(text) /\ Encodable(text)

\* the tokens of the window a returned chunk was cut from
WindowOf(c) == SubSeq(text, c.start + 1, c.end)

\* the token offset of the text at which a returned chunk begins
First(c) == c.start + (Len(WindowOf(c)) - Len(lstrip(WindowOf(c))))

\* the token offsets of the text that are in a returned chunk
Kept(c) == {p \in c.start..(c.end - 1) : p >= First(c) /\ p < First(c) + Len(c.text)}

Covered(p) == \E k \in 1..Len(returned.list) : p \in Kept(returned.list[k])

\* the chunks from the k-th on, each after the first without its first n tokens
RECURSIVE WithoutOverlaps(_, _, _)
WithoutOverlaps(cs, n, k) ==
    IF k > Len(cs) THEN <<>>
    ELSE (IF k = 1 THEN cs[k].text ELSE SubSeq(cs[k].text, n + 1, Len(cs[k].text)))
         \o WithoutOverlaps(cs, n, k + 1)

\* every token offset is in a chunk, consecutive chunks share exactly
\* chunk_overlap tokens, and the chunks without their overlaps are the text
TokenFaithful ==
    /\ \A p \in 0..(Len(text) - 1) : Covered(p)
    /\ \A k \in 1..(Len(returned.list) - 1) :
          Cardinality(Kept(returned.list[k]) \cap Kept(returned.list[k + 1])) = chunk_overlap
    /\ WithoutOverlaps(returned.list, chunk_overlap, 1) = text

\* a window is cut at token offset j: j is a multiple of the step and the
\* window before it did not reach the end of the text
CutAt(j) ==
    /\ j % (chunk_size - chunk_overlap) = 0
    /\ j = 0 \/ j - (chunk_size - chunk_overlap) + chunk_size < Len(text)

\* the k-th returned chunk is the whole window at offset (k-1) * step; every
\* chunk but the last has chunk_size tokens and does not reach the end of the
\* text, at which the last one ends
WindowsInOrder ==
    /\ returned.list # <<>>
    /\ \A k \in 1..Len(returned.list) :
          /\ returned.list[k].start = (k - 1) * (chunk_size - chunk_overlap)
          /\ First(returned.list[k]) = returned.list[k].start
          /\ k < Len(returned.list) =>
                 /\ Len(returned.list[k].text) = chunk_size
                 /\ returned.list[k].start + chunk_size < Len(text)
          /\ k = Len(returned.list) =>
                 /\ Len(returned.list[k].text) <= chunk_size
                 /\ First(returned.list[k]) + Len(returned.list[k].text) = Len(text)

\* 3000 tokens split with the configured chunk_size 1024 and chunk_overlap 200
Split3000 == chunk_text(WordText(3000), settings_chunk_size, settings_chunk_overlap)

FourChunks ==
    /\ Len(Split3000) = 4
    /\ \A k \in 1..4 : Split3000[k].start = (k - 1) * (settings_chunk_size - settings_chunk_overlap)
    /\ \A k \in 1..3 : Len(Split3000[k].text) = settings_chunk_size
    /\ Len(Split3000[4].text) < settings_chunk_size
    /\ Split3000[4].end = 3000

TypeOK ==
    /\ queue \in Seq(Docs)
    /\ is_running \in BOOLEAN
    /\ Members(workers) \subseteq Tasks
    /\ \A t \in Tasks : cur[t] \in Docs \cup {NoDoc}


\* ================================================================= claims

\* C1: when every collaborator call succeeds for a (once submitted) job, the
\* job ends with both stages completed, processing_attempts = 1, no error
\* row, and a vector-completed event emitted before a metadata-completed one.
C1_SuccessCommitsCompleted ==
    \A d \in Docs :
        (fault = "ok" /\ JobEnded(d)) =>
            /\ get_file_status(d).vector_processing_status = "completed"
            /\ get_file_status(d).metadata_processing_status = "completed"
            /\ get_file_status(d).processing_attempts = 1
            /\ get_file_status(d).errors = 0
            /\ EmittedBefore(d, "vector_completed", "metadata_completed")

\* C2: when the embedding collaborator fails on every call, the ended job
\* shows vector stage failed, processing_attempts = 3 and exactly 3 error rows.
C2_EmbeddingFailsThreeAttempts ==
    \A d \in Docs :
        (fault = "embed" /\ JobEnded(d)) =>
            /\ get_file_status(d).vector_processing_status = "failed"
            /\ get_file_status(d).processing_attempts = max_retries
            /\ get_file_status(d).errors = max_retries

\* C3: when only the structured-extraction collaborator fails, the ended job
\* shows vector stage completed and metadata stage failed; both stages are
\* failed only when the failure came before the vector store was written.
C3_PartialSuccessVisible ==
    \A d \in Docs :
        JobEnded(d) =>
            /\ fault = "meta" =>
                   /\ get_file_status(d).vector_processing_status = "completed"
                   /\ get_file_status(d).metadata_processing_status = "failed"
            /\ (vec[d] = "failed" /\ meta[d] = "failed") => fault # "meta"

\* C4: a file id that was submitted at most once is being processed by at
\* most one worker, in every reachable state.
C4_OneWorkerPerDocument ==
    \A d \in Docs : enq[d] <= 1 => InFlight(d) <= 1

C4_Witness ==
    \E t1, t2 \in Tasks :
        /\ t1 # t2
        /\ enq[1] = 1 /\ enq[2] = 1
        /\ Processing(t1, 1) /\ Processing(t2, 2)

\* C5 as stated: once stop() has returned, every job a worker had dequeued has
\* run to its end and has been acknowledged.
C5_StopLetsJobsFinish ==
    (started > 0 /\ ~is_running /\ ~stopping) => \A d \in Docs : taken[d] = acks[d]

\* C5 as amended: stop() cancels every worker task of its list that has not
\* ended; a cancelled worker takes no further step of its job (nothing more is
\* committed, acknowledged or re-queued) and only ends; stop() returns only
\* after all the workers it cancelled have ended.
C5_StopCancelsInFlight ==
    [][ /\ (is_running /\ ~is_running') =>
               \A t \in Members(workers) : pc[t] # "done" => cancelled'[t]
        /\ \A t \in Tasks : cancelled[t] =>
               /\ pc'[t] \in {pc[t], "done"}
               /\ pc'[t] # pc[t] =>
                      /\ acks' = acks /\ queue' = queue
                      /\ dvars' = dvars /\ cur'[t] = NoDoc
        /\ (stopping /\ ~stopping') => \A t \in gathering : pc[t] = "done"
      ]_vars

\* a job was dequeued, its worker was cancelled by stop(), and stop() returned
C5_Witness ==
    /\ started > 0 /\ ~is_running /\ ~stopping
    /\ \E d \in Docs : taken[d] = 1 /\ acks[d] = 0 /\ InFlight(d) = 0
                       /\ vec[d] = "pending"

\* jobs that were dequeued and neither acknowledged nor held by a worker
Lost(d) == taken[d] - acks[d] - InFlight(d)

\* C6 as stated: every put is either still queued or was handed to exactly one
\* worker, and every job handed out is either held by one worker or was
\* acknowledged exactly once; no job is lost.
C6_EveryJobAcknowledgedOnce ==
    \A d \in Docs :
        /\ enq[d] = CountIn(queue, d) + taken[d]
        /\ Lost(d) = 0

\* C6 as amended: the same, except that a job held by a worker that stop()
\* cancels is dropped: never acknowledged and not re-queued.  A job is dropped
\* only by the cancellation of the worker that holds it.
C6_AcknowledgedOnceUnlessCancelled ==
    /\ [](\A d \in Docs : /\ enq[d] = CountIn(queue, d) + taken[d]
                          /\ Lost(d) >= 0)
    /\ [][\A d \in Docs :
            Lost(d)' # Lost(d) =>
                /\ Lost(d)' = Lost(d) + 1
                /\ \E t \in Tasks : /\ cancelled[t] /\ Processing(t, d)
                                    /\ pc'[t] = "done"
                /\ acks' = acks /\ queue' = queue]_vars

\* a job was acknowledged after its run, another one is held by a worker
C6_Witness ==
    \E d1, d2 \in Docs :
        /\ d1 # d2
        /\ taken[d1] = 1 /\ acks[d1] = 1
        /\ InFlight(d2) = 1 /\ acks[d2] = 0

\* C7: a step that moves a stage of a file to failed adds exactly one error
\* row for that file in the same commit, error rows are added in no other
\* way, and a failed stage always has an error row.
C7_FailedWithOneErrorRecord ==
    /\ [](\A d \in Docs : (vec[d] = "failed" \/ meta[d] = "failed") => errs[d] >= 1)
    /\ [][\A d \in Docs :
            /\ ((vec'[d] = "failed" /\ vec[d] # "failed") \/
                (meta'[d] = "failed" /\ meta[d] # "failed"))
                   => errs'[d] = errs[d] + 1
            /\ errs'[d] # errs[d] =>
                   /\ errs'[d] = errs[d] + 1
                   /\ vec'[d] = "failed" /\ meta'[d] = "failed"]_vars

C7_Witness ==
    \E d \in Docs : JobEnded(d) /\ vec[d] = "failed" /\ meta[d] = "failed" /\ errs[d] = 1

\* C8: once a job has ended (it was acknowledged and its worker went on), the
\* file's stages are each completed or failed, never pending or processing.
C8_EndedJobIsTerminal ==
    \A d \in Docs :
        acks[d] >= 1 =>
            /\ Terminal(get_file_status(d).vector_processing_status)
            /\ Terminal(get_file_status(d).metadata_processing_status)

\* C10: running the vector stage a second time for the same file id and the
\* same text leaves the file's chunk ids (and so their number) as they were
\* after the first run.
C10_VectorStageIdempotent ==
    \A d \in Docs :
        (Len(ran[d]) >= 2 /\ ran[d][1].text = ran[d][2].text) =>
            /\ ran[d][2].ids = ran[d][1].ids
            /\ Cardinality(ran[d][2].ids) = ran[d][1].text

\* C11: while one worker is stalled forever inside a collaborator call, every
\* other job still reaches a terminal state: a job of another file that has
\* left its worker shows each stage completed or failed.
C11_StalledWorkerLeavesOthersTerminal ==
    \A t \in Tasks, d \in Docs :
        (pc[t] = "stalled" /\ cur[t] # d /\ JobEnded(d)) =>
            /\ Terminal(get_file_status(d).vector_processing_status)
            /\ Terminal(get_file_status(d).metadata_processing_status)

\* C13: after delete_file has deleted file X, the index the pipeline writes
\* to and queries read from (collection "contract_docs") holds no node of X.
C13_DeletedFileLeavesNoChunks ==
    \A d \in deleted : IdsOf(index, d) = {}

Queries == {"query_file_contracts", "query_file_contracts_old"}

\* C15: every source a query for file D returns has file_id D, whatever the
\* store holds and whatever the retriever handed back.
C15_SourcesOfQueriedFileOnly ==
    last.op \in Queries => \A n \in last.sources : n.file_id = last.file_id

\* a query whose retriever handed back nodes of two files and that returned
\* sources
C15_Witness ==
    /\ last.op \in Queries
    /\ last.sources # {}
    /\ \E n \in last.retrieved : n.file_id # last.file_id

Stores == {"store_vectors", "process_text_to_vectors"}

\* C16: a store call whose chunk/embedding pairs are all dropped by the
\* filter (blank chunk or empty embedding) raises; it does not return success.
C16_NothingToStoreRaises ==
    (/\ last.op \in Stores
     /\ Len(last.chunks) = Len(last.embeddings)
     /\ Valid(last.chunks, last.embeddings) = {}) => last.raised

\* C17: when the embedding collaborator gives no vector for some chunks of a
\* file not stored before, exactly the chunks with a vector are stored, each
\* at its own position and with the vector computed from it.
C17_ChunksWithoutVectorDropped ==
    [][(/\ last'.op = "process_text_to_vectors"
        /\ ChunksOf(collection, last'.file_id) = {}
        /\ ~Raises(last'.resp)) =>
           ChunksOf(collection', last'.file_id) =
               {Chunk(last'.file_id, i - 1, last'.chunks[i], i) :
                   i \in {k \in 1..Len(last'.chunks) :
                             last'.chunks[k] # 0 /\ last'.resp[k] = "vec"}}]_vars

\* C18: every chunk in the collection has a non-blank text and a non-empty
\* embedding, its id is the combination of its file_id and its position, and
\* no two chunks of the collection have the same id.
C18_StoredChunksWellFormed ==
    /\ \A c \in collection :
          /\ c.document # 0
          /\ c.embedding # 0
          /\ c.id = ChunkId(c.file_id, c.chunk_index)
    /\ \A c1, c2 \in collection : c1.id = c2.id => c1 = c2

\* a store call dropped a pair and stored another one, and the collection
\* holds chunks of two files
C18_Witness ==
    /\ last.op \in Stores
    /\ ~last.raised
    /\ \E i, j \in 1..Len(last.chunks) :
          /\ i \notin Valid(last.chunks, last.embeddings)
          /\ j \in Valid(last.chunks, last.embeddings)
          /\ \E c \in collection : c.id = ChunkId(last.file_id, j - 1)
    /\ \E c1, c2 \in collection : c1.file_id # c2.file_id

Derived ==
    _calculate_contract_status_and_tag(
        _normalize_date(str(Required(proposed.start_date))),
        _normalize_date(str(Required(proposed.end_date))),
        [vendor_name |-> Required(proposed.vendor_name)])

\* C22: the status and the tag of the normalized metadata are the ones
\* derived from the normalized dates and the vendor name, whatever status and
\* tag the extraction proposed.
C22_DerivedStatusOverrides ==
    (cleaned.called /\ ~cleaned.raised) =>
        /\ cleaned.metadata.contract_status = Str(Derived.status)
        /\ cleaned.metadata.contract_tag = Str(Derived.tag)
        /\ Derived.status \in {"Active", "Draft", "Expired"}

\* a proposal of status Expired and tag "Expiry > 90 days" for a contract that
\* runs and ends within 30 days was normalized
C22_Witness ==
    /\ cleaned.called /\ ~cleaned.raised
    /\ proposed.contract_status = Str("Expired")
    /\ proposed.contract_tag = Str("Expiry > 90 days")
    /\ cleaned.metadata.contract_status = Str("Active")
    /\ cleaned.metadata.contract_tag = Str("Expiry < 30 days")

\* the dates of the proposed dict give a contract that runs today
RunsToday ==
    /\ proposed.start_date = DateStr("%d-%m-%Y", -1)
    /\ proposed.end_date = DateStr("%d-%m-%Y", ExpirySoon + 1)

\* C23: when the vendor name is the absent value "NA" the status is Draft and
\* the tag is "NA", whatever the start and end dates are.
C23_AbsentVendorIsDraft ==
    (cleaned.called /\ proposed.vendor_name = Str("NA")) =>
        /\ ~cleaned.raised
        /\ cleaned.metadata.contract_status = Str("Draft")
        /\ cleaned.metadata.contract_tag = Str("NA")

\* the vendor name is "NA" and the dates are those of a contract that runs
\* today
C23_Witness ==
    /\ cleaned.called
    /\ proposed.vendor_name = Str("NA")
    /\ RunsToday
    /\ cleaned.metadata.contract_status = Str("Draft")

\* C24: when the text extraction fails, the attempt leaves both stages failed
\* and an error row, a failure event for the file was handed to the
\* subscribers, and no later step ran (no vector-stage run, no metadata).
C24_ExtractionFailureReported ==
    \A d \in Docs :
        (fault = "extract" /\ JobEnded(d)) =>
            /\ vec[d] = "failed" /\ meta[d] = "failed"
            /\ errs[d] >= 1
            /\ \E i \in 1..Len(events) : events[i] = [file_id |-> d, status |-> "failed"]
            /\ ran[d] = <<>> /\ IdsOf(index, d) = {}

\* C25: when an attempt fails after its first step, its uncommitted writes
\* are discarded, an error row is recorded, the stages not completed are marked
\* failed, and the exception reaches the retry loop: with attempts left, the
\* worker waits for the next attempt.
C25_FailureReachesRetryLoop ==
    [][\A t \in Tasks :
          (pc[t] = "except" /\ cur[t] # NoDoc /\ errs'[cur[t]] = errs[cur[t]] + 1) =>
              /\ txn'[t] = NoTxn
              /\ vec'[cur[t]] = "failed" /\ meta'[cur[t]] = "failed"
              /\ attempt[t] < max_retries => pc'[t] = "sleep"]_vars

\* C26: the committed processing_attempts of a file counts the attempts
\* started for it: once the job of a file has ended, with a database that
\* works, at least its first attempt is counted.
C26_AttemptsCounted ==
    \A d \in Docs : (fault # "db" /\ JobEnded(d)) => attempts[d] >= 1

\* C27: jobs leave the queue in the order they were put: a put adds its job
\* behind every waiting job, and the job a worker dequeues is the one that has
\* waited longest, whichever worker it is.
C27_FirstInFirstOut ==
    [][/\ \A d \in Docs :
            enq'[d] > enq[d] =>
                /\ Len(queue') = Len(queue) + 1
                /\ SubSeq(queue', 1, Len(queue)) = queue
                /\ queue'[Len(queue')] = d
       /\ \A t \in Tasks :
            (cur[t] = NoDoc /\ cur'[t] # NoDoc) =>
                /\ queue # <<>>
                /\ cur'[t] = queue[1]
                /\ queue' = SubSeq(queue, 2, Len(queue))]_vars

\* file 1 was put before file 2 and a worker has dequeued it while file 2
\* is still waiting and the other worker is idle
C27_Witness ==
    /\ queue = <<2>>
    /\ enq = [d \in Docs |-> 1]
    /\ \E t, u \in Tasks : cur[t] = 1 /\ pc[t] = "process" /\ pc[u] = "get"

Stored(d) ==
    <<vec[d], meta[d], attempts[d], errs[d], IdsOf(index, d), ChunksOf(collection, d)>>

\* C29: no step of an attempt for one file, failing or not, changes what is
\* stored for another file, however the workers' steps are interleaved.
C29_FailureIsolated ==
    [][\A t \in Tasks :
          (cur[t] # NoDoc /\ pc'[t] # pc[t]) =>
              \A b \in Docs \ {cur[t]} : Stored(b)' = Stored(b)]_vars

\* the attempt for file 1 has failed while another worker is in the middle
\* of its attempt for file 2, of which nothing is recorded yet
C29_Witness ==
    /\ vec[1] = "failed" /\ meta[1] = "failed" /\ errs[1] = 1
    /\ \E u \in Tasks : cur[u] = 2 /\ pc[u] \in {"extract", "vectors", "except"}
    /\ vec[2] = "pending" /\ meta[2] = "pending" /\ errs[2] = 0

\* C30: while a worker is executing the vector stage of a file, a status
\* query for that file reports the vector status "processing".
C30_ProcessingObservable ==
    \A t \in Tasks :
        pc[t] = "vectors" =>
            get_file_status(cur[t]).vector_processing_status = "processing"

\* C31 (as stated): an event is sent at most once to each subscriber that is
\* connected at publish time and is never delivered to a subscriber that
\* connects after the publish.
C31_NoLateDelivery ==
    /\ \A s \in Sockets : broadcasting.tried[s] <= 1
    /\ broadcasting.got \subseteq broadcasting.at_publish

\* C31 (amended): an event is sent at most once to each subscriber, only to
\* subscribers that were registered at some moment between the call of the
\* broadcast and its return, and a broadcast that has returned delivers
\* nothing more: what it sent changes only when the next broadcast is called.
C31_AtMostOnceWhileBroadcasting ==
    /\ [](/\ \A s \in Sockets : broadcasting.tried[s] <= 1
          /\ broadcasting.got \subseteq broadcasting.during)
    /\ [][broadcasting.pc = "done"
            => broadcasting' = broadcasting \/ broadcast]_vars

\* a returned broadcast that reached a subscriber of publish time and one
\* that connected while the broadcast was suspended
C31_Witness ==
    /\ broadcasting.pc = "done"
    /\ \E s \in broadcasting.got : s \in broadcasting.at_publish
    /\ \E s \in broadcasting.got : s \notin broadcasting.at_publish

\* C38: the subscriber registry stays consistent after any sequence of
\* connect, disconnect, broadcast and send_to_user calls, failed sends
\* included: a socket is in active_connections if and only if it is in some
\* user_connections list, and no user_connections entry is an empty list.
C38_RegistryConsistent ==
    /\ \A s \in Sockets :
          s \in Elems(active_connections)
          <=> \E u \in DOMAIN user_connections :
                 s \in Elems(user_connections[u])
    /\ \A u \in DOMAIN user_connections : user_connections[u] # <<>>

\* C39: a broadcast attempts delivery exactly once to every connection that
\* stays registered from the call of the broadcast to its return, whatever
\* is connected or disconnected while the broadcast is suspended in a send.
C39_EveryStayerTriedOnce ==
    broadcasting.pc = "done"
    => \A s \in broadcasting.stayed : broadcasting.tried[s] = 1

\* C32: for every dequeued job the pipeline is run at most max_retries (3)
\* times; an attempt is started only when the job is dequeued (the first) or
\* after the previous attempt of the same job has ended by raising into the
\* retry loop (the next); an attempt that returned normally ends the job.
C32_AttemptsBoundedSequential ==
    /\ [](\A t \in Tasks : attempt[t] \in 0..max_retries)
    /\ [][\A t \in Tasks :
            /\ attempt'[t] # attempt[t] /\ attempt'[t] # 0
                => \/ pc[t] = "get" /\ attempt'[t] = 1
                   \/ /\ pc[t] = "sleep"
                      /\ attempt'[t] = attempt[t] + 1
                      /\ cur'[t] = cur[t]
            /\ pc'[t] = "process" /\ pc[t] # "process"
                => attempt'[t] # attempt[t]
            /\ process_except(t) => cur'[t] = NoDoc /\ attempt'[t] = 0]_vars

\* the last attempt the retry loop allows has been started
C32_Witness ==
    \E t \in Tasks : pc[t] = "process" /\ attempt[t] = max_retries

\* C37: the jobs waiting in the queue when stop() is called are neither
\* dropped nor processed while the pool is stopped: until the next start()
\* the queue only grows at its tail and no job is handed to a worker. Every
\* job that leaves the queue is handed to exactly one worker, the one that
\* waited longest first, so after a later start() the waiting jobs are
\* dequeued once each in their original order; and while the pool runs the
\* queue is drained unless the pool is stopped again.
C37_WaitingJobsSurviveStop ==
    /\ [](Len(queue) = Waiting)
    /\ [][/\ ~is_running
              => /\ Len(queue') >= Len(queue)
                 /\ SubSeq(queue', 1, Len(queue)) = queue
                 /\ taken' = taken
          /\ taken' # taken
              => /\ queue # <<>>
                 /\ queue' = Tail(queue)
                 /\ taken' = [taken EXCEPT ![Head(queue)] = @ + 1]
                 /\ \E t \in Tasks :
                       /\ cur[t] = NoDoc /\ cur'[t] = Head(queue)
                       /\ \A u \in Tasks \ {t} : cur'[u] = cur[u]]_vars
    /\ [](is_running => <>(queue = <<>> \/ ~is_running))

\* a job that waited through a stop() is taken by a worker of the next
\* start() while the job put after it is still waiting
C37_Witness ==
    /\ started = 2
    /\ is_running
    /\ acks = [d \in Docs |-> 0]
    /\ queue = <<2>>
    /\ \E t \in Tasks : cur[t] = 1

\* the normalized dates the status is derived from
StartDate == _normalize_date(str(Required(proposed.start_date)))

EndDate == _normalize_date(str(Required(proposed.end_date)))

\* a date is known when it is present and parses
Known(v) == ~NoDate(v) /\ ~Unparsable(v)

ExpiryBands == {"Expiry < 30 days", "Expiry 30 to 90 days", "Expiry > 90 days"}

\* status and tag as the dates alone determine them
StatusByDates(status, tag) ==
    LET ended == Known(StartDate) /\ Known(EndDate)
                 /\ 2 * EndDate.day < current_date
        runs == /\ Known(StartDate)
                /\ \/ NoDate(EndDate)
                   \/ /\ Known(EndDate)
                      /\ 2 * StartDate.day <= current_date
                      /\ current_date <= 2 * EndDate.day
    IN /\ status \in {"Active", "Draft", "Expired"}
       /\ status = "Expired" <=> ended
       /\ status = "Active" <=> runs
       /\ tag \in ExpiryBands \cup {"NA"}
       /\ tag \in ExpiryBands <=> (status = "Active" /\ Known(EndDate))
       /\ tag \in ExpiryBands =>
            /\ tag = "Expiry < 30 days" <=> days_to_expiry(EndDate) < 30
            /\ tag = "Expiry 30 to 90 days"
                 <=> (30 <= days_to_expiry(EndDate) /\ days_to_expiry(EndDate) <= 90)
            /\ tag = "Expiry > 90 days" <=> days_to_expiry(EndDate) > 90

\* C34 (as stated): the derived status is one of Active, Draft, Expired:
\* Expired exactly when both dates are known and the end date is before now,
\* Active when the start date is known and the end date is absent or
\* start <= now <= end, Draft otherwise; the tag is an expiry band only when
\* the status is Active with a known end date, and the bands < 30, 30 to 90,
\* > 90 days split the day counts without gap or overlap.
C34_StatusFromDates ==
    (cleaned.called /\ ~cleaned.raised) =>
        StatusByDates(cleaned.metadata.contract_status.s,
                      cleaned.metadata.contract_tag.s)

\* C34 (amended): the same, for a contract whose vendor name is identified;
\* with an unidentified vendor name the status is Draft and the tag "NA"
\* whatever the dates are.
C34_StatusFromDatesAndVendor ==
    (cleaned.called /\ ~cleaned.raised) =>
        IF Unidentified(strip_str(Required(proposed.vendor_name).s))
        THEN /\ cleaned.metadata.contract_status = Str("Draft")
             /\ cleaned.metadata.contract_tag = Str("NA")
        ELSE StatusByDates(cleaned.metadata.contract_status.s,
                           cleaned.metadata.contract_tag.s)

\* a running contract of an identified vendor that ends in exactly 30 days:
\* the lower limit of the middle band
C34_Witness ==
    /\ cleaned.called /\ ~cleaned.raised
    /\ proposed.vendor_name = Str("Acme")
    /\ Known(EndDate) /\ days_to_expiry(EndDate) = ExpirySoon
    /\ cleaned.metadata.contract_status = Str("Active")
    /\ cleaned.metadata.contract_tag = Str("Expiry 30 to 90 days")

Rank(status) ==
    CASE status = "queued" -> 1
      [] status = "processing" -> 2
      [] status \in {"success", "error"} -> 3

\* stop_worker() was called and has returned, and no start_worker() followed
Stopped == ~running /\ ~stopping_worker /\ worker_task.pc = "done"

\* C40: the status of every task only moves forward, queued then processing
\* then one final result, and does not change after the final result; every
\* task waiting in the queue is queued; get_task_status of an id that was
\* never added is not_found; after stop_worker has returned no task is left
\* with status processing.
C40_TaskStatusMovesForward ==
    /\ [][\A id \in DOMAIN results :
            /\ id \in DOMAIN results'
            /\ results'[id] # results[id]
                => Rank(results'[id]) = Rank(results[id]) + 1]_vars
    /\ [](\A i \in 1..Len(tasks) : get_task_status(tasks[i]) = "queued")
    /\ [](\A id \in TaskIds \ DOMAIN results :
            get_task_status(id) = "not_found")
    /\ [](Stopped => \A id \in DOMAIN results :
                        get_task_status(id) # "processing")

====
